---- MODULE Spec2Model ----
(***************************************************************************)
(* A model of FiPy's CellTerm (fipy/terms/cellTerm.py) and of the status   *)
(* normalisation of TrilinosAztecOOSolver                                  *)
(* (fipy/solvers/trilinos/trilinosAztecOOSolver.py).                       *)
(*                                                                         *)
(* Floating-point numbers are modelled as exact fractions <<n, d>> with    *)
(* d > 0, extended with the IEEE non-finite values: <<1, 0>> is +inf,      *)
(* <<-1, 0>> is -inf and <<0, 0>> is nan.  Rounding and signed zeros are   *)
(* not modelled.                                                           *)
(***************************************************************************)
EXTENDS Integers, Sequences, FiniteSets, TLC

(***************************************************************************)
(* Bounds of the model.                                                    *)
(***************************************************************************)
NumCells == 2
NumFields == 2
MaxAlloc == 6
MaxSolves == 3
MaxIts == 3

(***************************************************************************)
(* Numbers.                                                                *)
(***************************************************************************)
Abs(n) == IF n < 0 THEN -n ELSE n

Sgn(n) == IF n > 0 THEN 1 ELSE IF n < 0 THEN -1 ELSE 0

RECURSIVE GCD(_, _)
GCD(a, b) == IF b = 0 THEN a ELSE GCD(b, a % b)

\* the fraction n/d in lowest terms; d = 0 gives inf, -inf or nan
Norm(n, d) ==
    IF d = 0 THEN <<Sgn(n), 0>>
    ELSE LET g == GCD(Abs(n), Abs(d))
         IN  <<(Sgn(d) * n) \div g, Abs(d) \div g>>

Rat(n) == <<n, 1>>

Zero == Rat(0)

One == Rat(1)

NaN == <<0, 0>>

IsFinite(x) == x[2] # 0

IsInf(x) == x[2] = 0 /\ x[1] # 0

Add(x, y) ==
    IF IsInf(x) /\ IsInf(y)
    THEN (IF x[1] = y[1] THEN x ELSE NaN)
    ELSE Norm(x[1] * y[2] + y[1] * x[2], x[2] * y[2])

Mul(x, y) == Norm(x[1] * y[1], x[2] * y[2])

\* 1/y: 1/0 is +inf, 1/inf is 0, 1/nan is nan
Recip(y) ==
    IF y = NaN THEN NaN
    ELSE IF y[1] = 0 THEN <<1, 0>>
    ELSE IF y[2] = 0 THEN Zero
    ELSE <<Sgn(y[1]) * y[2], Abs(y[1])>>

Div(x, y) == Mul(x, Recip(y))

(***************************************************************************)
(* numerix arrays: sequences of numbers, with elementwise arithmetic.      *)
(***************************************************************************)
zeros(N) == [i \in 1..N |-> Zero]

ones(N) == [i \in 1..N |-> One]

ArrayAdd(a, c) == [i \in 1..Len(a) |-> Add(a[i], c[i])]

ArrayMul(a, c) == [i \in 1..Len(a) |-> Mul(a[i], c[i])]

ArrayDivScalar(a, s) == [i \in 1..Len(a) |-> Div(a[i], s)]

ArrayMulScalar(a, s) == [i \in 1..Len(a) |-> Mul(a[i], s)]

RECURSIVE add_reduce(_)
add_reduce(a) == IF Len(a) = 0 THEN Zero ELSE Add(a[1], add_reduce(Tail(a)))

sign(x) == Sgn(x[1])

(***************************************************************************)
(* _SparseMatrix: a square matrix of size N, all entries zero when         *)
(* created.                                                                *)
(***************************************************************************)
SparseMatrix(N) == [i \in 1..N |-> [j \in 1..N |-> Zero]]

addAtDiagonal(L, v) ==
    [i \in 1..Len(L) |-> [j \in 1..Len(L) |->
        IF i = j THEN Add(L[i][j], v[i]) ELSE L[i][j]]]

takeDiagonal(L) == [i \in 1..Len(L) |-> L[i][i]]

(***************************************************************************)
(* Fields (the variables solved for).  A field is known by its identity,   *)
(* 1..NumFields; fields 1 and 2 hold equal values.  All fields live on     *)
(* one mesh of NumCells cells.                                             *)
(***************************************************************************)
Fields == 1..NumFields

NoneVar == 0

getNumberOfCells == NumCells

getValue(var) == [i \in 1..NumCells |-> Rat((var \div 3) + i + 1)]

getOld(var) == [i \in 1..NumCells |-> Rat((var \div 3) + i)]

len(var) == Len(getValue(var))

\* var != self._var: fields compare by identity
VarNe(a, b) == a # b

(***************************************************************************)
(* State.                                                                  *)
(*   term      the CellTerm under study, NoTerm before it is constructed   *)
(*   doInline  the process-wide flag read by inline._optionalInline        *)
(*   nextId    the identity the next allocated object gets                 *)
(*   lastInit  the last CellTerm(coeff) call and its outcome               *)
(*   gcv       the last _getCoeffVectors call and its outcome              *)
(*   bm        the last _buildMatrix call and its outcome                  *)
(*   status    the solver's status dictionary                              *)
(*   wrote     for each status key, the _solve_ call that last wrote it    *)
(*   solves    the number of _solve_ calls made                            *)
(*   sv        the last _solve_ call and its outcome                       *)
(***************************************************************************)
VARIABLES term, doInline, nextId, lastInit, gcv, bm, status, wrote, solves, sv

termVars == <<term, doInline, nextId, lastInit, gcv, bm>>

solverVars == <<status, wrote, solves, sv>>

vars == <<term, doInline, nextId, lastInit, gcv, bm, status, wrote, solves, sv>>

(***************************************************************************)
(* Coefficients handed to CellTerm(coeff): the class of the object and     *)
(* the shape of its value, on a Grid1D of NumCells cells.                  *)
(***************************************************************************)
CoeffArgs ==
    { [cls |-> "number", shape |-> <<>>],
      [cls |-> "tuple", shape |-> <<1>>],
      [cls |-> "Variable", shape |-> <<>>],
      [cls |-> "Variable", shape |-> <<NumCells>>],
      [cls |-> "CellVariable", shape |-> <<NumCells>>],
      [cls |-> "FaceVariable", shape |-> <<NumCells + 1>>],
      [cls |-> "VectorCellVariable", shape |-> <<NumCells, 1>>],
      [cls |-> "VectorFaceVariable", shape |-> <<NumCells + 1, 1>>] }

\* the classes an object of class cls is an instance of
Bases(cls) ==
    IF cls \in {"number", "tuple"} THEN {cls}
    ELSE IF cls = "Variable" THEN {"Variable"}
    ELSE {cls, "Variable"}

isinstance(obj, cls) == cls \in Bases(obj.cls)

_Constant(value) == [cls |-> "_Constant", shape |-> value.shape]

getShape(obj) == obj.shape

(***************************************************************************)
(* The discretisation weights of the concrete subclasses (_getWeight).     *)
(***************************************************************************)
Keys == {"diagonal", "old value", "b vector", "new value"}

Weight(d, o, b, n) ==
    ("diagonal" :> Rat(d)) @@ ("old value" :> Rat(o)) @@
    ("b vector" :> Rat(b)) @@ ("new value" :> Rat(n))

Weights == { Weight(0, 1, 0, 1), Weight(1, 2, 3, 1) }

None == [id |-> 0]

NoTerm == [exists |-> FALSE]

(***************************************************************************)
(* CellTerm.__init__.  Term.__init__ (line 67) stores the coefficient and  *)
(* creates the diagonal sign, which starts at +1.                          *)
(***************************************************************************)
\* a variant that refuses whatever is not a scalar CellVariable
__init__Or(coeff, weight) ==
    LET c == IF ~isinstance(coeff, "Variable") THEN _Constant(coeff) ELSE coeff
    IN  IF ~isinstance(c, "CellVariable") \/ getShape(c) # <<>>
        THEN [raised |-> "TypeError", self |-> NoTerm]
        ELSE [raised |-> "",
              self |-> [exists |-> TRUE, coeff |-> c, weight |-> weight,
                        coeffVectors |-> None, _var |-> NoneVar,
                        _diagonalSign |-> 1]]

__init__(coeff, weight) ==
    LET c == IF ~isinstance(coeff, "Variable") THEN _Constant(coeff) ELSE coeff
    IN  IF ~isinstance(c, "CellVariable") /\ getShape(c) # <<>>
        THEN [raised |-> "TypeError", self |-> NoTerm]
        ELSE [raised |-> "",
              self |-> [exists |-> TRUE, coeff |-> c, weight |-> weight,
                        coeffVectors |-> None, _var |-> NoneVar,
                        _diagonalSign |-> 1]]

(***************************************************************************)
(* What the collaborators of _calcCoeffVectors answer on one call:         *)
(* ok = FALSE when var.getMesh(), _getGeomCoeff or _getWeight raises;      *)
(* otherwise the geometric coefficient and its old value: a zero           *)
(* coefficient, a uniform positive one, or a spatially varying one whose   *)
(* old value differs from the current one.                                 *)
(***************************************************************************)
Uniform(a) == [i \in 1..NumCells |-> Rat(a)]

Varying(a) == [i \in 1..NumCells |-> Rat(a + i)]

Envs ==
    { [ok |-> FALSE, coeff |-> Uniform(0), old |-> Uniform(0)],
      [ok |-> TRUE, coeff |-> Uniform(0), old |-> Uniform(0)],
      [ok |-> TRUE, coeff |-> Uniform(3), old |-> Uniform(3)],
      [ok |-> TRUE, coeff |-> Varying(0), old |-> Varying(1)] }

(***************************************************************************)
(* CellTerm._calcCoeffVectors: the dictionary is assigned last, so a       *)
(* raising collaborator leaves self.coeffVectors as it was.  forVar        *)
(* records the field the vectors were computed for.                        *)
(***************************************************************************)
_calcCoeffVectors(self, var, env, id) ==
    IF ~env.ok
    THEN [raised |-> "Error", self |-> self]
    ELSE [raised |-> "",
          self |-> [self EXCEPT !.coeffVectors =
            [id |-> id, forVar |-> var,
             dict |-> ("diagonal" :> ArrayMulScalar(env.coeff, self.weight["diagonal"]))
                   @@ ("old value" :> ArrayMulScalar(env.old, self.weight["old value"]))
                   @@ ("b vector" :> ArrayMulScalar(env.coeff, self.weight["b vector"]))
                   @@ ("new value" :> ArrayMulScalar(env.coeff, self.weight["new value"]))]]]

(***************************************************************************)
(* CellTerm._getCoeffVectors                                               *)
(***************************************************************************)
\* what _getCoeffVectors returns after the call c of _calcCoeffVectors
Recomputed(c) ==
    [raised |-> c.raised, self |-> c.self, recomputed |-> TRUE,
     ret |-> IF c.raised # "" THEN None ELSE c.self.coeffVectors]

\* a variant that compares the fields by value
_getCoeffVectorsByValue(self, var, env, id) ==
    IF self.coeffVectors = None \/ getValue(var) # getValue(self._var)
    THEN Recomputed(_calcCoeffVectors([self EXCEPT !._var = var], var, env, id))
    ELSE [raised |-> "", self |-> self, recomputed |-> FALSE,
          ret |-> self.coeffVectors]

_getCoeffVectors(self, var, env, id) ==
    IF self.coeffVectors = None \/ VarNe(var, self._var)
    THEN Recomputed(_calcCoeffVectors([self EXCEPT !._var = var], var, env, id))
    ELSE [raised |-> "", self |-> self, recomputed |-> FALSE,
          ret |-> self.coeffVectors]

(***************************************************************************)
(* CellTerm._buildMatrixPy: the reference strategy, whole-array            *)
(* expressions.                                                            *)
(***************************************************************************)
\* a variant that does not divide the new-value coefficient by dt
_buildMatrixPyNoDt(L, oldArray, b, dt, coeffVectors) ==
    LET N == Len(oldArray)
        b1 == ArrayAdd(b, ArrayDivScalar(ArrayMul(oldArray, coeffVectors["old value"]), dt))
        b2 == ArrayAdd(b1, ArrayMul(ones(N), coeffVectors["b vector"]))
        L1 == addAtDiagonal(L, ArrayMul(ones(N), coeffVectors["new value"]))
        L2 == addAtDiagonal(L1, ArrayMul(ones(N), coeffVectors["diagonal"]))
    IN  [L |-> L2, b |-> b2]

_buildMatrixPy(L, oldArray, b, dt, coeffVectors) ==
    LET N == Len(oldArray)
        b1 == ArrayAdd(b, ArrayDivScalar(ArrayMul(oldArray, coeffVectors["old value"]), dt))
        b2 == ArrayAdd(b1, ArrayMul(ones(N), coeffVectors["b vector"]))
        L1 == addAtDiagonal(L, ArrayDivScalar(ArrayMul(ones(N), coeffVectors["new value"]), dt))
        L2 == addAtDiagonal(L1, ArrayMul(ones(N), coeffVectors["diagonal"]))
    IN  [L |-> L2, b |-> b2]

(***************************************************************************)
(* CellTerm._buildMatrixIn: the fused strategy.  inline._runInline runs    *)
(* the kernel once for every i below ni, in order; the kernel updates b    *)
(* and the accumulator updatePyArray at index i.                           *)
(***************************************************************************)
Kernel(i, st, oldArray, oldCoeff, bCoeff, newCoeff, diagCoeff, dt) ==
    LET b1 == [st.b EXCEPT ![i] = Add(@, Div(Mul(oldArray[i], oldCoeff[i]), dt))]
        b2 == [b1 EXCEPT ![i] = Add(@, bCoeff[i])]
        u1 == [st.updatePyArray EXCEPT ![i] = Add(@, Div(newCoeff[i], dt))]
        u2 == [u1 EXCEPT ![i] = Add(@, diagCoeff[i])]
    IN  [b |-> b2, updatePyArray |-> u2]

RECURSIVE _runInline(_, _, _, _, _, _, _, _, _)
_runInline(i, ni, st, oldArray, oldCoeff, bCoeff, newCoeff, diagCoeff, dt) ==
    IF i > ni THEN st
    ELSE _runInline(i + 1, ni,
                    Kernel(i, st, oldArray, oldCoeff, bCoeff, newCoeff, diagCoeff, dt),
                    oldArray, oldCoeff, bCoeff, newCoeff, diagCoeff, dt)

\* a variant whose kernel leaves out the diagonal coefficient
_buildMatrixInNoDiag(L, oldArray, b, dt, coeffVectors) ==
    LET N == getNumberOfCells
        updatePyArray == zeros(N)
        st == _runInline(1, Len(updatePyArray),
                         [b |-> b, updatePyArray |-> updatePyArray],
                         oldArray,
                         coeffVectors["old value"], coeffVectors["b vector"],
                         coeffVectors["new value"], zeros(N), dt)
    IN  [L |-> addAtDiagonal(L, st.updatePyArray), b |-> st.b]

_buildMatrixIn(L, oldArray, b, dt, coeffVectors) ==
    LET N == getNumberOfCells
        updatePyArray == zeros(N)
        st == _runInline(1, Len(updatePyArray),
                         [b |-> b, updatePyArray |-> updatePyArray],
                         oldArray,
                         coeffVectors["old value"], coeffVectors["b vector"],
                         coeffVectors["new value"], coeffVectors["diagonal"], dt)
    IN  [L |-> addAtDiagonal(L, st.updatePyArray), b |-> st.b]

\* inline._optionalInline(inlineFn, pythonFn, *args)
_optionalInline(flag, L, oldArray, b, dt, coeffVectors) ==
    IF flag THEN _buildMatrixIn(L, oldArray, b, dt, coeffVectors)
    ELSE _buildMatrixPy(L, oldArray, b, dt, coeffVectors)

(***************************************************************************)
(* CellTerm._buildMatrix.  equation is NoEquation (None) or a record       *)
(* holding the combined matrix of the prior equation.  b gets the          *)
(* identity id, L gets id + 1, and a recomputed dictionary id + 2.         *)
(***************************************************************************)
NoEquation == [matrix |-> <<>>]

\* the rest of _buildMatrix after the call g of _getCoeffVectors: when g
\* raised, so does _buildMatrix; otherwise the selected strategy fills L and b
Returned(g, r, id) ==
    [raised |-> "", self |-> g.self, get |-> g,
     L |-> r.L, b |-> r.b, Lid |-> id + 1, bid |-> id]

Assemble(g, L, oldArray, b, dt, id, flag) ==
    IF g.raised # ""
    THEN [raised |-> g.raised, self |-> g.self, get |-> g,
          L |-> <<>>, b |-> <<>>, Lid |-> 0, bid |-> 0]
    ELSE Returned(g, _optionalInline(flag, L, oldArray, b, dt, g.ret.dict), id)

\* a variant that keeps the stored sign when no equation is passed
_buildMatrixKeepSign(self, var, dt, equation, env, id, flag) ==
    LET N == len(var)
        b == zeros(N)
        L == SparseMatrix(N)
        s1 == [self EXCEPT !._diagonalSign =
                  IF equation # NoEquation
                  THEN sign(add_reduce(takeDiagonal(equation.matrix)))
                  ELSE @]
    IN  Assemble(_getCoeffVectors(s1, var, env, id + 2),
                 L, getOld(var), b, dt, id, flag)

_buildMatrix(self, var, dt, equation, env, id, flag) ==
    LET N == len(var)
        b == zeros(N)
        L == SparseMatrix(N)
        s1 == [self EXCEPT !._diagonalSign =
                  IF equation # NoEquation
                  THEN sign(add_reduce(takeDiagonal(equation.matrix)))
                  ELSE 1]
    IN  Assemble(_getCoeffVectors(s1, var, env, id + 2),
                 L, getOld(var), b, dt, id, flag)

(***************************************************************************)
(* Arguments of _buildMatrix.                                              *)
(***************************************************************************)
DtValues == { Rat(0), Rat(2), <<-1, 2>> }

Diagonal(a, c) == [i \in 1..NumCells |-> IF i = 1 THEN Rat(a) ELSE Rat(c)]

Matrix(a, c) == addAtDiagonal(SparseMatrix(NumCells), Diagonal(a, c))

Equations ==
    { NoEquation } \cup
    { [matrix |-> Matrix(1, -1)], [matrix |-> Matrix(-1, -1)] }

(***************************************************************************)
(* Records of the last calls.                                              *)
(***************************************************************************)
NoInit == [called |-> FALSE]

NoGet == [called |-> FALSE, var |-> NoneVar, computed |-> FALSE]

NoBuild == [called |-> FALSE]

\* the record of a _getCoeffVectors call g made on term self with next identity id
GetRecord(self, var, g, id) ==
    [called |-> TRUE, var |-> var,
     prevVar |-> gcv.var,
     hadComputed |-> gcv.computed,
     computed |-> gcv.computed \/ (g.recomputed /\ g.raised = ""),
     cachedBefore |-> self.coeffVectors.id,
     allocBefore |-> id,
     recomputed |-> g.recomputed,
     raised |-> g.raised,
     retId |-> g.ret.id,
     retFor |-> IF g.ret = None THEN NoneVar ELSE g.ret.forVar]

Allocated(g) == IF g.recomputed /\ g.raised = "" THEN 1 ELSE 0

(***************************************************************************)
(* Actions on the term.                                                    *)
(***************************************************************************)
Construct(coeff, weight) ==
    /\ term = NoTerm
    /\ LET r == __init__(coeff, weight)
       IN  /\ term' = r.self
           /\ lastInit' = [called |-> TRUE, coeff |-> coeff, raised |-> r.raised]
    /\ UNCHANGED <<doInline, nextId, gcv, bm, solverVars>>

GetCoeffVectors(var, env) ==
    /\ term # NoTerm
    /\ nextId <= MaxAlloc
    /\ \E g \in {_getCoeffVectors(term, var, env, nextId)} :
           /\ term' = g.self
           /\ nextId' = nextId + Allocated(g)
           /\ gcv' = GetRecord(term, var, g, nextId)
    /\ UNCHANGED <<doInline, lastInit, bm, solverVars>>

BuildMatrix(var, dt, equation, env) ==
    /\ term # NoTerm
    /\ nextId + 2 <= MaxAlloc
    /\ \E r \in {_buildMatrix(term, var, dt, equation, env, nextId, doInline)} :
           /\ term' = r.self
           /\ nextId' = nextId + 2 + Allocated(r.get)
           /\ gcv' = GetRecord(term, var, r.get, nextId + 2)
           /\ bm' = [called |-> TRUE, var |-> var, dt |-> dt,
                     equation |-> equation,
                     allocBefore |-> nextId,
                     signBefore |-> term._diagonalSign,
                     raised |-> r.raised,
                     L |-> r.L, b |-> r.b, Lid |-> r.Lid, bid |-> r.bid,
                     coeffVectors |-> r.get.ret]
    /\ UNCHANGED <<doInline, lastInit, solverVars>>

SolverIdle ==
    /\ status = <<>>
    /\ wrote = <<>>
    /\ solves = 0
    /\ sv = [called |-> FALSE]

(***************************************************************************)
(* Spec: construction of a term and calls of _getCoeffVectors on it.       *)
(***************************************************************************)
Init ==
    /\ term = NoTerm
    /\ doInline \in BOOLEAN
    /\ nextId = 1
    /\ lastInit = NoInit
    /\ gcv = NoGet
    /\ bm = NoBuild
    /\ SolverIdle

Next ==
    \/ \E coeff \in CoeffArgs, weight \in Weights : Construct(coeff, weight)
    \/ \E var \in Fields, env \in Envs : GetCoeffVectors(var, env)

Spec == Init /\ [][Next]_vars

(***************************************************************************)
(* BuildSpec: calls of _buildMatrix on a term constructed with the         *)
(* default coefficient, CellTerm(coeff=1.), of any subclass.               *)
(***************************************************************************)
DefaultCoeff == [cls |-> "number", shape |-> <<>>]

BuildInit ==
    /\ \E weight \in Weights :
          /\ term = __init__(DefaultCoeff, weight).self
          /\ lastInit = [called |-> TRUE, coeff |-> DefaultCoeff, raised |-> ""]
    /\ doInline \in BOOLEAN
    /\ nextId = 1
    /\ gcv = NoGet
    /\ bm = NoBuild
    /\ SolverIdle

BuildNext ==
    \E var \in Fields, dt \in DtValues, equation \in Equations, env \in Envs :
        BuildMatrix(var, dt, equation, env)

BuildSpec == BuildInit /\ [][BuildNext]_vars

(***************************************************************************)
(* Python classes and instances, as far as _solve_ uses them: a class has  *)
(* a name and is itself an instance of type; calling a class gives an      *)
(* instance of it.                                                         *)
(***************************************************************************)
Class(name) == [kind |-> "class", name |-> name]

New(cls, args) == [kind |-> "instance", cls |-> cls, args |-> args]

__class__(obj) == IF obj.kind = "instance" THEN obj.cls ELSE Class("type")

__name__(cls) == cls.name

(***************************************************************************)
(* The terminal-condition codes of AztecOO and                             *)
(* TrilinosAztecOOSolver._warningDict.                                     *)
(***************************************************************************)
AZ_normal == "AZ_normal"

AZ_param == "AZ_param"

AZ_breakdown == "AZ_breakdown"

AZ_loss == "AZ_loss"

AZ_ill_cond == "AZ_ill_cond"

AZ_maxits == "AZ_maxits"

\* a code the backend might answer that _warningDict does not hold
AZ_other == "AZ_other"

_warningDict ==
    (AZ_normal :> Class("NormalConvergence")) @@
    (AZ_param :> Class("ParameterWarning")) @@
    (AZ_breakdown :> Class("BreakdownWarning")) @@
    (AZ_loss :> Class("LossOfPrecisionWarning")) @@
    (AZ_ill_cond :> Class("MatrixIllConditionedWarning")) @@
    (AZ_maxits :> Class("MaximumIterationWarning"))

(***************************************************************************)
(* What the backend answers on one call: the value of Solver.Iterate and   *)
(* the array of Solver.GetAztecStatus.  The entries of the array are       *)
(* pairwise different, so that a status entry shows which one it copies.   *)
(***************************************************************************)
AztecStatus(n, why) ==
    [AZ_its |-> n, AZ_r |-> 10 + n, AZ_scaled_r |-> 20 + n,
     AZ_rec_r |-> 30 + n, AZ_solve_time |-> 40 + n,
     AZ_Aztec_version |-> 50, AZ_why |-> why]

Responses ==
    { [output |-> o, status |-> AztecStatus(n, why)] :
        o \in {0, 1}, n \in 1..MaxIts,
        why \in DOMAIN _warningDict \cup {AZ_other} }

\* d[k] = v on a dictionary
SetItem(d, k, v) == [x \in DOMAIN d \cup {k} |-> IF x = k THEN v ELSE d[x]]

(***************************************************************************)
(* TrilinosAztecOOSolver._raiseWarning: the warning handed to              *)
(* warnings.warn, or None.                                                 *)
(***************************************************************************)
\* a variant that warns on normal convergence too
_raiseWarningAlways(info, iter, relres) ==
    New(_warningDict[info], <<iter, relres>>)

_raiseWarning(info, iter, relres) ==
    IF info # AZ_normal
    THEN New(_warningDict[info], <<iter, relres>>)
    ELSE None

(***************************************************************************)
(* TrilinosAztecOOSolver._solve_, from the answer of the backend on.       *)
(* The calls that configure and run the backend (lines 95-114) leave the   *)
(* solver's status alone and are taken to return.  The result holds the    *)
(* status dictionary as the call leaves it, the keys the call assigned,    *)
(* the exception raised if any, the warning given and the value returned.  *)
(***************************************************************************)
Normalize(selfStatus, aztecStatus) ==
    LET s1 == SetItem(selfStatus, "iterations", aztecStatus.AZ_its)
        s2 == SetItem(s1, "residual", aztecStatus.AZ_r)
        s3 == SetItem(s2, "scaled residual", aztecStatus.AZ_scaled_r)
        s4 == SetItem(s3, "convergence residual", aztecStatus.AZ_rec_r)
        s5 == SetItem(s4, "solve time", aztecStatus.AZ_solve_time)
    IN  SetItem(s5, "Aztec version", aztecStatus.AZ_Aztec_version)

NormalizedKeys ==
    {"iterations", "residual", "scaled residual", "convergence residual",
     "solve time", "Aztec version"}

_solve_(selfStatus, response) ==
    LET aztecStatus == response.status
        s6 == Normalize(selfStatus, aztecStatus)
    IN  IF aztecStatus.AZ_why \notin DOMAIN _warningDict
        THEN [status |-> s6, assigned |-> NormalizedKeys,
              raised |-> "KeyError", warning |-> None, returned |-> None]
        ELSE [status |-> SetItem(s6, "code",
                            __name__(__class__(_warningDict[aztecStatus.AZ_why]))),
              assigned |-> NormalizedKeys \cup {"code"},
              raised |-> "",
              warning |-> _raiseWarning(aztecStatus.AZ_why, aztecStatus.AZ_its,
                                        aztecStatus.AZ_scaled_r),
              returned |-> [value |-> response.output]]

Solve(response) ==
    /\ solves < MaxSolves
    /\ \E r \in {_solve_(status, response)} :
           /\ status' = r.status
           /\ wrote' = [k \in DOMAIN wrote \cup r.assigned |->
                           IF k \in r.assigned THEN solves + 1 ELSE wrote[k]]
           /\ sv' = [called |-> TRUE, response |-> response,
                     raised |-> r.raised, warning |-> r.warning,
                     returned |-> r.returned]
    /\ solves' = solves + 1
    /\ UNCHANGED termVars

(***************************************************************************)
(* SolverSpec: calls of _solve_ on one solver.                             *)
(***************************************************************************)
SolverInit ==
    /\ term = NoTerm
    /\ doInline = FALSE
    /\ nextId = 1
    /\ lastInit = NoInit
    /\ gcv = NoGet
    /\ bm = NoBuild
    /\ SolverIdle

SolverNext == \E response \in Responses : Solve(response)

SolverSpec == SolverInit /\ [][SolverNext]_vars

(***************************************************************************)
(* Properties of the coefficient cache and of construction, under Spec.    *)
(***************************************************************************)

\* C1: a _getCoeffVectors call recomputes the vectors if and only if no
\* computation has completed yet or the field passed is another entity than
\* the field passed on the previous call; a call that does not recompute
\* returns the very object that was cached, and a call that recomputes
\* returns a newly created object.
C1_RecomputesIffFieldIdentityChanges ==
    gcv.called =>
        /\ gcv.recomputed <=> (~gcv.hadComputed \/ gcv.var # gcv.prevVar)
        /\ ~gcv.recomputed =>
              /\ gcv.raised = ""
              /\ gcv.retId # 0
              /\ gcv.retId = gcv.cachedBefore
        /\ (gcv.recomputed /\ gcv.raised = "") =>
              /\ gcv.retId >= gcv.allocBefore
              /\ gcv.retId # gcv.cachedBefore

\* a call with another field whose values equal the previous field's recomputed
C1_Witness ==
    /\ gcv.called
    /\ gcv.hadComputed
    /\ gcv.var # gcv.prevVar
    /\ getValue(gcv.var) = getValue(gcv.prevVar)
    /\ gcv.recomputed
    /\ gcv.raised = ""

\* C2: CellTerm(coeff) succeeds when coeff is a scalar or a CellVariable,
\* and raises TypeError, creating no term, for every other coefficient.
C2_ConstructionAcceptsScalarOrCellVariable ==
    lastInit.called =>
        IF lastInit.coeff.shape = <<>> \/ lastInit.coeff.cls = "CellVariable"
        THEN lastInit.raised = "" /\ term # NoTerm
        ELSE lastInit.raised = "TypeError" /\ term = NoTerm

\* construction with a vector cell variable was refused
C2_Witness ==
    /\ lastInit.called
    /\ lastInit.coeff.cls = "VectorCellVariable"
    /\ lastInit.raised = "TypeError"
    /\ term = NoTerm

\* C10: the cache never pairs a field with vectors computed for another
\* field: the cached vectors were computed for the cached field, and the
\* vectors a call returns were computed for the field passed.
C10_CachePairsFieldWithItsOwnVectors ==
    /\ (term # NoTerm /\ term.coeffVectors # None) =>
          term.coeffVectors.forVar = term._var
    /\ (gcv.called /\ gcv.raised = "") => gcv.retFor = gcv.var

(***************************************************************************)
(* Properties of _buildMatrix, under BuildSpec.                            *)
(***************************************************************************)
Returns == bm.called /\ bm.raised = ""

\* C3: for the arguments of a returning _buildMatrix call with dt # 0, the
\* reference strategy and the fused strategy give the same diagonal of L
\* and the same b, and the call returns exactly that system whichever
\* strategy the flag selects.
C3_StrategiesAgree ==
    (Returns /\ bm.dt # Zero) =>
        \E py \in {_buildMatrixPy(SparseMatrix(len(bm.var)), getOld(bm.var),
                                  zeros(len(bm.var)), bm.dt, bm.coeffVectors.dict)},
           in \in {_buildMatrixIn(SparseMatrix(len(bm.var)), getOld(bm.var),
                                  zeros(len(bm.var)), bm.dt, bm.coeffVectors.dict)} :
            /\ takeDiagonal(py.L) = takeDiagonal(in.L)
            /\ py.b = in.b
            /\ bm.L = py.L /\ bm.L = in.L
            /\ bm.b = py.b /\ bm.b = in.b

\* the fused strategy assembled a spatially varying coefficient with a
\* non-zero diagonal part
C3_Witness ==
    /\ Returns
    /\ doInline
    /\ bm.dt # Zero
    /\ bm.coeffVectors.dict["diagonal"] # zeros(NumCells)
    /\ bm.coeffVectors.dict["new value"][1] # bm.coeffVectors.dict["new value"][2]

\* C4: _buildMatrix with dt = 0 raises a division error (unless the
\* coefficient computation already raised), and a system that is returned
\* holds no infinite or undefined entry.
C4_ZeroDtRaisesDivisionError ==
    bm.called =>
        /\ (bm.dt = Zero /\ gcv.raised = "") => bm.raised = "ZeroDivisionError"
        /\ bm.raised = "" =>
              /\ \A i \in 1..Len(bm.b) : IsFinite(bm.b[i])
              /\ \A i, j \in 1..Len(bm.L) : IsFinite(bm.L[i][j])

\* C8: a returning _buildMatrix call with dt # 0 gives newly allocated L
\* and b of size N with b[i] = old[i] * oldCoeff[i] / dt + bCoeff[i],
\* L[i,i] = newCoeff[i] / dt + diagCoeff[i] and L[i,j] = 0 off the
\* diagonal, however many calls came before.
C8_SystemIsTheDiscretisation ==
    (Returns /\ bm.dt # Zero) =>
        LET cv == bm.coeffVectors.dict
            old == getOld(bm.var)
        IN  /\ DOMAIN bm.b = 1..NumCells
            /\ DOMAIN bm.L = 1..NumCells
            /\ \A i \in 1..NumCells :
                  /\ bm.b[i] = Add(Div(Mul(old[i], cv["old value"][i]), bm.dt),
                                   cv["b vector"][i])
                  /\ bm.L[i][i] = Add(Div(cv["new value"][i], bm.dt),
                                      cv["diagonal"][i])
                  /\ \A j \in 1..NumCells : i # j => bm.L[i][j] = Zero
            /\ bm.bid >= bm.allocBefore
            /\ bm.Lid >= bm.allocBefore
            /\ bm.bid # bm.Lid

\* a later call on the same term, with the cached vectors, returned a
\* system with non-zero entries
C8_Witness ==
    /\ Returns
    /\ bm.dt # Zero
    /\ bm.allocBefore > 1
    /\ ~gcv.recomputed
    /\ bm.b[1] # Zero
    /\ bm.L[1][1] # Zero

RECURSIVE TraceNumerator(_, _)
\* the sum of the first n diagonal entries of an integer matrix
TraceNumerator(m, n) == IF n = 0 THEN 0 ELSE m[n][n][1] + TraceNumerator(m, n - 1)

\* C9: after a _buildMatrix call the stored diagonal sign is +1 when no
\* equation was passed and the sign of the sum of the diagonal of the
\* equation's matrix when one was; the returned system is what the
\* selected strategy assembles from the field, dt and the coefficient
\* vectors alone.
C9_DiagonalSignFollowsEquation ==
    bm.called =>
        /\ term._diagonalSign =
              (IF bm.equation = NoEquation THEN 1
               ELSE Sgn(TraceNumerator(bm.equation.matrix, Len(bm.equation.matrix))))
        /\ bm.raised = "" =>
              \E r \in {_optionalInline(doInline, SparseMatrix(NumCells),
                                        getOld(bm.var), zeros(NumCells), bm.dt,
                                        bm.coeffVectors.dict)} :
                  bm.L = r.L /\ bm.b = r.b

\* a call without an equation reset a sign of -1 stored by an earlier call
C9_Witness ==
    /\ bm.called
    /\ bm.equation = NoEquation
    /\ bm.signBefore = -1
    /\ term._diagonalSign = 1

(***************************************************************************)
(* Properties of _solve_, under SolverSpec.                                *)
(***************************************************************************)
Supported ==
    {AZ_normal, AZ_param, AZ_breakdown, AZ_loss, AZ_ill_cond, AZ_maxits}

OutcomeName(why) ==
    CASE why = AZ_normal -> "NormalConvergence"
      [] why = AZ_param -> "ParameterWarning"
      [] why = AZ_breakdown -> "BreakdownWarning"
      [] why = AZ_loss -> "LossOfPrecisionWarning"
      [] why = AZ_ill_cond -> "MatrixIllConditionedWarning"
      [] why = AZ_maxits -> "MaximumIterationWarning"

\* C5: after _solve_ completes, status['code'] is the name of the outcome
\* the backend's terminal-condition code maps to.
C5_CodeIsOutcomeName ==
    (sv.called /\ sv.raised = "") =>
        status["code"] = OutcomeName(sv.response.status.AZ_why)

\* C6: for each of the six supported codes, _solve_ gives a warning if and
\* only if the code is not AZ_normal, and it returns the value of
\* Solver.Iterate in every case.
C6_WarnsIffNotNormalAndReturns ==
    (sv.called /\ sv.response.status.AZ_why \in Supported) =>
        /\ sv.warning # None <=> sv.response.status.AZ_why # AZ_normal
        /\ sv.raised = ""
        /\ sv.returned = [value |-> sv.response.output]

\* a solve that broke down warned and still returned the backend's value
C6_Witness ==
    /\ sv.called
    /\ sv.response.status.AZ_why = AZ_breakdown
    /\ sv.warning # None
    /\ sv.returned = [value |-> 1]

\* C7: whenever control has left a _solve_ call, every entry of the status
\* record was written by that most recent call.
C7_StatusComesFromLastCall ==
    sv.called => \A k \in DOMAIN status : wrote[k] = solves

====
